---------------------------- MODULE Spec2Model ----------------------------
(***************************************************************************)
(* Finite automata of src/src/automata.rs: the NFA and DFA engines and the *)
(* subset construction `determinize`; and the prefix-tree acceptor of      *)
(* src/src/passive.rs, `build_pta`.                                        *)
(*                                                                         *)
(* A Rust HashSet<String> is modelled by its members together with its     *)
(* iteration order where the code reads that order: HashableHashSet::hash  *)
(* (automata.rs:15-21) feeds the members to the hasher in iteration order, *)
(* while the derived PartialEq/Eq (automata.rs:4) compares the members as  *)
(* a set.  A meta-state is therefore a sequence without repetitions: its   *)
(* range is the set of NFA states, the sequence is the iteration order.    *)
(***************************************************************************)
EXTENDS Naturals, Sequences, FiniteSets, TLC

VARIABLES
    nfa,                      \* the NFA under study (immutable input)
    pc,                       \* position of the running operation
    \* ---- determinize (automata.rs:236-320)
    start_state,              \* start meta-state
    queue,                    \* VecDeque<HashableHashSet>
    visited,                  \* HashSet<HashableHashSet>
    dfa_transition_function,  \* HashMap<(HashableHashSet, char), HashSet<String>>
    dfa_accept_states,        \* HashSet<HashableHashSet>
    current_dfa_state,        \* the meta-state popped from the queue
    symbols,                  \* symbols of `for symbol in &nfa.alphabet` still to come
    state_map,                \* HashMap<HashableHashSet, String>
    state_counter,            \* counter of `format!("q{}", state_counter)`
    names_left,               \* entries of `for state_set in visited` still to come
    dfa,                      \* the DFA returned (or under test)
    processed,                \* history: the meta-states dequeued so far, in order
    first_dfa,                \* <<d>> for the DFA d an earlier call of determinize returned
    \* ---- epsilon_closure (automata.rs:138-154)
    closure_of,               \* the argument `state`
    closure,                  \* HashSet<String>
    stack,                    \* Vec<String>
    pushes,                   \* history: how often each state was pushed
    iterations,               \* history: iterations of the while loop
    \* ---- accepts (automata.rs:96-108 and 181-196)
    input,                    \* the input string
    pos,                      \* number of symbols consumed
    current_states,           \* NFA: the active set
    current_state,            \* DFA: the current state; build_pta: the trie node reached
    result,                   \* value returned by accepts
    \* ---- epsilon_closure_set and move_nfa (automata.rs:201-232); their locals
    \* ---- `closure` and `stack` are the variables of that name above
    arg_states,               \* the argument `states`
    arg_symbol,               \* the argument `symbol` of move_nfa
    first_closure,            \* <<c>> for the set c an earlier closing returned
    \* ---- build_pta (passive.rs:10-62)
    positive,                 \* s.positive
    words_left,               \* words of `for word in s.positive` still to come
    word,                     \* characters of word.chars() still to come
    next_state_index,         \* counter of `format!("q{}", next_state_index)`
    pta                       \* states, alphabet, transition_function, accept_states

vars == <<nfa, pc, start_state, queue, visited, dfa_transition_function,
          dfa_accept_states, current_dfa_state, symbols, state_map,
          state_counter, names_left, dfa, processed, first_dfa, closure_of, closure,
          stack, pushes, iterations, input, pos, current_states, current_state,
          result, arg_states, arg_symbol, first_closure, positive, words_left,
          word, next_state_index, pta>>

detVars == <<start_state, queue, visited, dfa_transition_function,
             dfa_accept_states, current_dfa_state, symbols, state_map,
             state_counter, names_left, processed>>

closureVars == <<closure_of, closure, stack, pushes, iterations>>

acceptVars == <<input, pos, current_states, current_state, result>>

setVars == <<arg_states, arg_symbol, first_closure>>

ptaVars == <<positive, words_left, word, next_state_index, pta>>

-----------------------------------------------------------------------------
(* Bounds of the model *)

\* largest number of (state, label, target) edges of an NFA or DFA
MaxEdges == 2

\* longest input string
MaxLen == 3

\* longest positive sample string of build_pta
MaxWordLen == 2

\* largest number of positive sample strings of build_pta
MaxWords == 3

-----------------------------------------------------------------------------
(* The universe of automata *)

\* the state names of the NFA of main.rs:26
States == {"q0", "q1", "q2"}

\* the state names of the DFA of main.rs:7; determinize is studied on the NFAs
\* over these two states
SmallStates == {"q0", "q1"}

\* the alphabet of main.rs:10 and main.rs:29
Symbols == {"a", "b"}

\* Option<char>::None, the label of an epsilon transition
None == "None"

Labels == Symbols \cup {None}

\* value of a variable that holds nothing yet
Null == "null"

\* an operation that is not running holds nothing
DetIdle ==
    /\ start_state = Null /\ queue = Null /\ visited = Null
    /\ dfa_transition_function = Null /\ dfa_accept_states = Null
    /\ current_dfa_state = Null /\ symbols = Null /\ state_map = Null
    /\ state_counter = Null /\ names_left = Null /\ processed = Null
    /\ first_dfa = <<>>

ClosureIdle ==
    /\ closure_of = Null /\ closure = Null /\ stack = Null /\ pushes = Null
    /\ iterations = Null

AcceptIdle ==
    /\ input = Null /\ pos = Null /\ current_states = Null /\ current_state = Null
    /\ result = Null

SetIdle ==
    /\ arg_states = Null /\ arg_symbol = Null /\ first_closure = <<>>

PtaIdle ==
    /\ positive = Null /\ words_left = Null /\ word = Null
    /\ next_state_index = Null /\ pta = Null

Range(f) == {f[i] : i \in DOMAIN f}

\* the iteration orders a HashSet with members S can have
Perms(S) ==
    {f \in [1..Cardinality(S) -> S] : \A i, j \in DOMAIN f : f[i] = f[j] => i = j}

\* all strings over an alphabet up to a length
Strings(alphabet, n) == UNION {[1..k -> alphabet] : k \in 0..n}

\* HashMap built from a collection of (state, label, target) edges: one key
\* per (state, label) with the set of its targets
TransitionMap(E) ==
    [k \in {<<e[1], e[2]>> : e \in E} |->
        {e[3] : e \in {x \in E : x[1] = k[1] /\ x[2] = k[2]}}]

\* the collections of at most MaxEdges edges between the states of Q
EdgeSets(Q, L) == {Range(f) : f \in UNION {[1..k -> Q \X L \X Q] : k \in 0..MaxEdges}}

\* NondeterministicFiniteAutomaton::new (automata.rs:158-172) on the states Q
\* with start state q0: no argument is validated
NFAs(Q, alphabets, accepts) ==
    {[states |-> Q, alphabet |-> al, transition_function |-> TransitionMap(E),
      start_state |-> "q0", accept_states |-> ac] :
        al \in alphabets, E \in EdgeSets(Q, Labels), ac \in accepts}

-----------------------------------------------------------------------------
(* NFA engine (automata.rs:120-233) *)

\* self.transition_function.get(&(state, label)).cloned().unwrap_or_else(HashSet::new):
\* the entry of the key, the empty set for an absent key
transition_nfa(n, state, label) ==
    IF <<state, label>> \in DOMAIN n.transition_function
    THEN n.transition_function[<<state, label>>]
    ELSE {}

is_accepting(n, state) == state \in n.accept_states

\* one iteration order of a set, where the order does not reach the result
SomeOrder(S) == CHOOSE f \in Perms(S) : TRUE

\* the while loop of epsilon_closure: pop the last state pushed, insert its
\* epsilon successors and push those that were new
RECURSIVE closure_loop(_, _, _)
closure_loop(n, cl, st) ==
    IF st = <<>> THEN cl
    ELSE LET s == st[Len(st)]
             next_states == transition_nfa(n, s, None)
             new == next_states \ cl
         IN closure_loop(n, cl \cup new, SubSeq(st, 1, Len(st) - 1) \o SomeOrder(new))

epsilon_closure(n, state) == closure_loop(n, {state}, <<state>>)

\* the while loop of epsilon_closure_set: pop the front of the deque
RECURSIVE closure_set_loop(_, _, _)
closure_set_loop(n, cl, st) ==
    IF st = <<>> THEN cl
    ELSE LET state == Head(st)
             next_states == transition_nfa(n, state, None)
             new == next_states \ cl
         IN closure_set_loop(n, cl \cup new, Tail(st) \o SomeOrder(new))

epsilon_closure_set(n, states) == closure_set_loop(n, states, SomeOrder(states))

move_nfa(n, states, symbol) ==
    LET reachable == UNION {transition_nfa(n, state, symbol) : state \in states}
    IN epsilon_closure_set(n, reachable)

\* mutant of next_states_of: the symbol successors are not epsilon-closed
next_states_of_unclosed(n, cur, symbol) ==
    UNION {transition_nfa(n, state, symbol) : state \in cur}

\* the body of `for symbol in input.chars()` (automata.rs:185-192): the
\* epsilon closure of every symbol successor of every active state
next_states_of(n, cur, symbol) ==
    UNION {UNION {epsilon_closure(n, r) : r \in transition_nfa(n, state, symbol)} :
               state \in cur}

\* the for loop of NondeterministicFiniteAutomaton::accepts from position i
RECURSIVE nfa_run(_, _, _, _)
nfa_run(n, w, i, cur) ==
    IF i > Len(w) THEN cur
    ELSE nfa_run(n, w, i + 1, next_states_of(n, cur, w[i]))

nfa_accepts(n, w) ==
    \E s \in nfa_run(n, w, 1, epsilon_closure(n, n.start_state)) : is_accepting(n, s)

-----------------------------------------------------------------------------
(* DFA engine (automata.rs:52-109) *)

\* self.transition_function.get(&(state, symbol)): is the move defined
has_transition(d, state, symbol) == <<state, symbol>> \in DOMAIN d.transition_function

\* the Some(next_state) of a defined move
transition_dfa(d, state, symbol) == d.transition_function[<<state, symbol>>]

dfa_is_accepting(d, state) == state \in d.accept_states

\* the for loop of DeterministicFiniteAutomaton::accepts from position i: the
\* state it ends in, and whether it left by the early `return false`
RECURSIVE dfa_run(_, _, _, _)
dfa_run(d, w, i, cur) ==
    IF i > Len(w) THEN [returned_early |-> FALSE, state |-> cur]
    ELSE IF has_transition(d, cur, w[i])
         THEN dfa_run(d, w, i + 1, transition_dfa(d, cur, w[i]))
         ELSE [returned_early |-> TRUE, state |-> cur]

dfa_accepts(d, w) ==
    LET run == dfa_run(d, w, 1, d.start_state)
    IN IF run.returned_early THEN FALSE ELSE dfa_is_accepting(d, run.state)

-----------------------------------------------------------------------------
(* HashableHashSet (automata.rs:4-21) and the hash tables keyed by it *)

\* #[derive(Eq, PartialEq)] on HashableHashSet(HashSet<String>): two meta-states
\* are equal iff they have the same members
MetaEq(x, y) == Range(x) = Range(y)

\* impl Hash for HashableHashSet: `for item in &self.0 { item.hash(state) }`
\* feeds the members in iteration order, so what is hashed is the sequence
hash(m) == m

\* Probing a std HashSet/HashMap for key k among the stored keys: an entry is
\* returned only if it is equal to k; an equal entry whose hash is the hash of
\* k is always found, an equal entry with another hash is found only if its
\* control byte happens to match, so both outcomes exist.  A result is <<e>>
\* for the stored key e, or <<>> when no entry is found.
probe(keys, k) ==
    LET equal == {e \in keys : MetaEq(e, k)}
    IN {<<e>> : e \in equal}
         \cup (IF \E e \in equal : hash(e) = hash(k) THEN {} ELSE {<<>>})

\* the same for the keys (HashableHashSet, char) of dfa_transition_function:
\* the tuple hashes its meta-state, then its symbol
probe_pair(keys, k) ==
    LET equal == {e \in keys : MetaEq(e[1], k[1]) /\ e[2] = k[2]}
    IN {<<e>> : e \in equal}
         \cup (IF \E e \in equal : hash(e[1]) = hash(k[1]) THEN {} ELSE {<<>>})

\* HashSet::insert(k) with probe outcome r: a found key is kept as it is
set_insert(set, k, r) == IF r = <<>> THEN set \cup {k} ELSE set

\* HashMap::insert(k, v) with probe outcome r: a found key keeps the stored key
\* and takes the new value
map_insert(map, k, v, r) ==
    IF r = <<>>
    THEN [x \in DOMAIN map \cup {k} |-> IF x = k THEN v ELSE map[x]]
    ELSE [x \in DOMAIN map |-> IF x = r[1] THEN v ELSE map[x]]

\* format!("q{}", state_counter)
format(counter) == <<"q", counter>>

\* mutant of any_accepting: `all` in place of `any`
all_accepting(n, meta) == \A s \in Range(meta) : s \in n.accept_states

\* `current_dfa_state.iter().any(|s| nfa.accept_states.contains(s))`
any_accepting(n, meta) == \E s \in Range(meta) : s \in n.accept_states

-----------------------------------------------------------------------------
(* determinize (automata.rs:236-320) *)

\* The NFAs handed to determinize: every transition is labelled with a symbol of the alphabet or with epsilon, as in the NFA of
\* main.rs:25-50.  (determinize reads the transitions only under the symbols
\* of nfa.alphabet and under epsilon.)
DetNFAs ==
    {n \in NFAs(SmallStates, SUBSET Symbols, SUBSET SmallStates) :
        \A k \in DOMAIN n.transition_function : k[2] \in n.alphabet \cup {None}}

\* Step 1 (automata.rs:238-253): the start meta-state is the epsilon closure
\* of {start}, in the iteration order its HashSet happens to have
DetInit ==
    /\ nfa \in DetNFAs
    /\ start_state \in Perms(epsilon_closure_set(nfa, {nfa.start_state}))
    /\ queue = <<start_state>>
    /\ visited = {start_state}
    /\ dfa_transition_function = <<>>
    /\ dfa_accept_states = {}
    /\ current_dfa_state = Null
    /\ symbols = {}
    /\ state_map = <<>>
    /\ state_counter = 0
    /\ names_left = {}
    /\ dfa = Null
    /\ processed = <<>>
    /\ first_dfa = <<>>
    /\ pc = "loop"
    /\ ClosureIdle
    /\ AcceptIdle
    /\ SetIdle
    /\ PtaIdle

\* `while let Some(current_dfa_state) = queue.pop_front()` and the accept
\* check (automata.rs:256-263)
PopFront ==
    /\ pc = "loop"
    /\ queue # <<>>
    /\ current_dfa_state' = Head(queue)
    /\ queue' = Tail(queue)
    /\ processed' = Append(processed, Head(queue))
    /\ IF any_accepting(nfa, Head(queue))
       THEN \E r \in probe(dfa_accept_states, Head(queue)) :
                dfa_accept_states' = set_insert(dfa_accept_states, Head(queue), r)
       ELSE UNCHANGED dfa_accept_states
    /\ symbols' = nfa.alphabet
    /\ pc' = IF nfa.alphabet = {} THEN "loop" ELSE "symbols"
    /\ UNCHANGED <<setVars, ptaVars, nfa, start_state, visited, dfa_transition_function, state_map,
                   state_counter, names_left, dfa, first_dfa, closureVars, acceptVars>>

\* one iteration of `for symbol in &nfa.alphabet` (automata.rs:266-279); the
\* set returned by move_nfa is a fresh HashSet with an iteration order of its own
ForSymbol ==
    /\ pc = "symbols"
    /\ \E symbol \in symbols :
        LET next_set == move_nfa(nfa, Range(current_dfa_state), symbol)
        IN /\ IF next_set # {}
              THEN \E next_nfa_states \in Perms(next_set) :
                   \E r \in probe(visited, next_nfa_states) :
                   \E rk \in probe_pair(DOMAIN dfa_transition_function,
                                        <<current_dfa_state, symbol>>) :
                     /\ visited' = set_insert(visited, next_nfa_states, r)
                     /\ queue' = IF r = <<>> THEN Append(queue, next_nfa_states)
                                 ELSE queue
                     /\ dfa_transition_function' =
                            map_insert(dfa_transition_function,
                                       <<current_dfa_state, symbol>>,
                                       next_nfa_states, rk)
              ELSE UNCHANGED <<visited, queue, dfa_transition_function>>
           /\ symbols' = symbols \ {symbol}
           /\ pc' = IF symbols \ {symbol} = {} THEN "loop" ELSE "symbols"
    /\ UNCHANGED <<setVars, ptaVars, nfa, start_state, dfa_accept_states, current_dfa_state, state_map,
                   state_counter, names_left, dfa, processed, first_dfa,
                   closureVars, acceptVars>>

\* the queue is empty: the while loop ends and `for state_set in visited` begins
\* (automata.rs:280-287)
EndLoop ==
    /\ pc = "loop"
    /\ queue = <<>>
    /\ names_left' = visited
    /\ pc' = "naming"
    /\ UNCHANGED <<setVars, ptaVars, nfa, start_state, queue, visited, dfa_transition_function,
                   dfa_accept_states, current_dfa_state, symbols, state_map,
                   state_counter, dfa, processed, first_dfa, closureVars, acceptVars>>

\* one iteration of `for state_set in visited` (automata.rs:287-291), in the
\* iteration order of visited
NameState ==
    /\ pc = "naming"
    /\ \E state_set \in names_left :
       \E r \in probe(DOMAIN state_map, state_set) :
         /\ state_map' = map_insert(state_map, state_set, format(state_counter), r)
         /\ names_left' = names_left \ {state_set}
    /\ state_counter' = state_counter + 1
    /\ UNCHANGED <<setVars, ptaVars, nfa, pc, start_state, queue, visited, dfa_transition_function,
                   dfa_accept_states, current_dfa_state, symbols, dfa, processed,
                   first_dfa, closureVars, acceptVars>>

\* the meta-states looked up by `state_map[&...]` in automata.rs:293-310
lookup_keys ==
    {start_state} \cup dfa_accept_states
        \cup {k[1] : k \in DOMAIN dfa_transition_function}
        \cup {dfa_transition_function[k] : k \in DOMAIN dfa_transition_function}

\* the looked-up keys whose probe has more than one possible outcome
uncertain_keys == {k \in lookup_keys : Cardinality(probe(DOMAIN state_map, k)) > 1}

\* the possible outcomes of all those lookups in the final state_map: one probe
\* outcome per looked-up key
lookups ==
    LET choices == {c \in [uncertain_keys ->
                              UNION {probe(DOMAIN state_map, k) : k \in uncertain_keys}] :
                        \A k \in uncertain_keys : c[k] \in probe(DOMAIN state_map, k)}
    IN {[k \in lookup_keys |->
            IF k \in uncertain_keys THEN c[k]
            ELSE CHOOSE r \in probe(DOMAIN state_map, k) : TRUE] : c \in choices}

\* the (key, value) pairs the `.map(...)` of automata.rs:303-309 yields under
\* the lookup outcomes f
renamed(f) ==
    {<<<<state_map[f[k[1]][1]], k[2]>>, state_map[f[dfa_transition_function[k]][1]]>> :
        k \in DOMAIN dfa_transition_function}

\* `.collect()` of those pairs into a HashMap: one value per key, the last one
\* yielded for it
collected(pairs) ==
    {g \in [{p[1] : p \in pairs} -> {p[2] : p \in pairs}] :
        \A key \in DOMAIN g : <<key, g[key]>> \in pairs}

\* Step 3 after the naming loop (automata.rs:293-319): `state_map[&k]` panics
\* when the probe finds no entry
Convert ==
    /\ pc = "naming"
    /\ names_left = {}
    /\ \E f \in lookups :
         IF \E k \in lookup_keys : f[k] = <<>>
         THEN /\ pc' = "panic"
              /\ dfa' = dfa
         ELSE /\ pc' = "done"
              /\ \E g \in collected(renamed(f)) :
                   dfa' = [states |-> {state_map[k] : k \in DOMAIN state_map},
                           alphabet |-> nfa.alphabet,
                           transition_function |-> g,
                           start_state |-> state_map[f[start_state][1]],
                           accept_states |->
                               {state_map[f[s][1]] : s \in dfa_accept_states}]
    /\ UNCHANGED <<setVars, ptaVars, nfa, detVars, first_dfa, closureVars, acceptVars>>

Next == PopFront \/ ForSymbol \/ EndLoop \/ NameState \/ Convert

Spec == DetInit /\ [][Next]_vars

\* determinize is a pure function of an immutable NFA: a caller may call it
\* again on the same NFA.  The second call starts from fresh working sets.
CallAgain ==
    /\ pc = "done"
    /\ first_dfa = <<>>
    /\ first_dfa' = <<dfa>>
    /\ start_state' \in Perms(epsilon_closure_set(nfa, {nfa.start_state}))
    /\ queue' = <<start_state'>>
    /\ visited' = {start_state'}
    /\ dfa_transition_function' = <<>>
    /\ dfa_accept_states' = {}
    /\ current_dfa_state' = Null
    /\ symbols' = {}
    /\ state_map' = <<>>
    /\ state_counter' = 0
    /\ names_left' = {}
    /\ dfa' = Null
    /\ processed' = <<>>
    /\ pc' = "loop"
    /\ UNCHANGED <<setVars, ptaVars, nfa, closureVars, acceptVars>>

NextTwoRuns == Next \/ CallAgain

SpecTwoRuns == DetInit /\ [][NextTwoRuns]_vars

-----------------------------------------------------------------------------
(* epsilon_closure step by step (automata.rs:138-154) *)

\* epsilon_closure reads the transition map only
ClosureNFAs == NFAs(States, {Symbols}, {{}})

ClosureInit ==
    /\ nfa \in ClosureNFAs
    /\ closure_of \in States
    /\ closure = {closure_of}
    /\ stack = <<closure_of>>
    /\ pushes = [s \in States |-> IF s = closure_of THEN 1 ELSE 0]
    /\ iterations = 0
    /\ pc = "while"
    /\ dfa = Null
    /\ DetIdle
    /\ AcceptIdle
    /\ SetIdle
    /\ PtaIdle

\* mutant of ClosureStep: the successors are inserted but never pushed
ClosureStepNoPush ==
    /\ pc = "while"
    /\ stack # <<>>
    /\ LET s == stack[Len(stack)]
           new == transition_nfa(nfa, s, None) \ closure
       IN /\ stack' = SubSeq(stack, 1, Len(stack) - 1)
          /\ closure' = closure \cup new
          /\ pushes' = pushes
    /\ iterations' = iterations + 1
    /\ UNCHANGED <<setVars, ptaVars, nfa, pc, dfa, closure_of, detVars, first_dfa, acceptVars>>

\* mutant of ClosureStep: every successor is pushed, whether or not
\* `closure.insert` found it new
ClosureStepPushesAll ==
    /\ pc = "while"
    /\ stack # <<>>
    /\ LET s == stack[Len(stack)]
           next_states == transition_nfa(nfa, s, None)
       IN /\ \E order \in Perms(next_states) :
                stack' = SubSeq(stack, 1, Len(stack) - 1) \o order
          /\ closure' = closure \cup next_states
          /\ pushes' = [q \in States |->
                            IF q \in next_states THEN pushes[q] + 1 ELSE pushes[q]]
    /\ iterations' = iterations + 1
    /\ UNCHANGED <<setVars, ptaVars, nfa, pc, dfa, closure_of, detVars, first_dfa, acceptVars>>

\* one iteration of `while let Some(s) = stack.pop()`: the inner for loop
\* inserts every epsilon successor and pushes the newly inserted ones, in the
\* iteration order of next_states
ClosureStep ==
    /\ pc = "while"
    /\ stack # <<>>
    /\ LET s == stack[Len(stack)]
           new == transition_nfa(nfa, s, None) \ closure
       IN /\ \E order \in Perms(new) :
                stack' = SubSeq(stack, 1, Len(stack) - 1) \o order
          /\ closure' = closure \cup new
          /\ pushes' = [q \in States |-> IF q \in new THEN pushes[q] + 1 ELSE pushes[q]]
    /\ iterations' = iterations + 1
    /\ UNCHANGED <<setVars, ptaVars, nfa, pc, dfa, closure_of, detVars, first_dfa, acceptVars>>

\* the stack is empty: `closure` is returned
ClosureReturn ==
    /\ pc = "while"
    /\ stack = <<>>
    /\ pc' = "done"
    /\ UNCHANGED <<setVars, ptaVars, nfa, dfa, closureVars, detVars, first_dfa, acceptVars>>

ClosureNext == ClosureStep \/ ClosureReturn

SpecClosure == ClosureInit /\ [][ClosureNext]_vars

\* the call runs to completion: nothing suspends or preempts it
SpecClosureFair == SpecClosure /\ WF_vars(ClosureNext)

-----------------------------------------------------------------------------
(* epsilon_closure_set and move_nfa step by step (automata.rs:201-232) *)

\* A call of epsilon_closure_set(states) (arg_symbol is Null) or of
\* move_nfa(states, symbol).  epsilon_closure_set starts from
\* `closure = states.clone()` and a deque of the states in iteration order;
\* move_nfa starts from `reachable = HashSet::new()`.
SetInit ==
    /\ nfa \in ClosureNFAs
    /\ arg_states \in SUBSET States
    /\ arg_symbol \in Symbols \cup {Null}
    /\ first_closure = <<>>
    /\ IF arg_symbol = Null
       THEN /\ closure = arg_states
            /\ stack \in Perms(arg_states)
            /\ pc = "while"
       ELSE /\ closure = {}
            /\ stack = <<>>
            /\ pc = "move"
    /\ closure_of = Null /\ pushes = Null /\ iterations = Null
    /\ dfa = Null
    /\ DetIdle
    /\ AcceptIdle
    /\ PtaIdle

\* mutant of MoveNfa: `reachable` starts as a copy of `states`
MoveNfaKeepsStates ==
    /\ pc = "move"
    /\ LET reachable == arg_states \cup
                UNION {transition_nfa(nfa, state, arg_symbol) : state \in arg_states}
       IN /\ closure' = reachable
          /\ stack' \in Perms(reachable)
    /\ pc' = "while"
    /\ UNCHANGED <<nfa, dfa, setVars, closure_of, pushes, iterations, detVars,
                   first_dfa, acceptVars, ptaVars>>

\* move_nfa (automata.rs:219-231): the for loop collects the symbol successors
\* of every state into `reachable`, then epsilon_closure_set(&reachable) is
\* entered: closure = reachable, the deque holds reachable in iteration order
MoveNfa ==
    /\ pc = "move"
    /\ LET reachable == UNION {transition_nfa(nfa, state, arg_symbol) : state \in arg_states}
       IN /\ closure' = reachable
          /\ stack' \in Perms(reachable)
    /\ pc' = "while"
    /\ UNCHANGED <<nfa, dfa, setVars, closure_of, pushes, iterations, detVars,
                   first_dfa, acceptVars, ptaVars>>

\* mutant of SetClosureStep: the successors are inserted but never pushed
SetClosureStepNoPush ==
    /\ pc = "while"
    /\ stack # <<>>
    /\ LET state == Head(stack)
           new == transition_nfa(nfa, state, None) \ closure
       IN /\ stack' = Tail(stack)
          /\ closure' = closure \cup new
    /\ UNCHANGED <<nfa, pc, dfa, setVars, closure_of, pushes, iterations, detVars,
                   first_dfa, acceptVars, ptaVars>>

\* one iteration of `while let Some(state) = stack.pop_front()`
\* (automata.rs:205-213): every epsilon successor is inserted, the newly
\* inserted ones are pushed to the back in the iteration order of next_states
SetClosureStep ==
    /\ pc = "while"
    /\ stack # <<>>
    /\ LET state == Head(stack)
           new == transition_nfa(nfa, state, None) \ closure
       IN /\ \E order \in Perms(new) : stack' = Tail(stack) \o order
          /\ closure' = closure \cup new
    /\ UNCHANGED <<nfa, pc, dfa, setVars, closure_of, pushes, iterations, detVars,
                   first_dfa, acceptVars, ptaVars>>

\* the deque is empty: `closure` is returned (automata.rs:215)
SetClosureReturn ==
    /\ pc = "while"
    /\ stack = <<>>
    /\ pc' = "done"
    /\ UNCHANGED <<nfa, dfa, setVars, closureVars, detVars, first_dfa, acceptVars,
                   ptaVars>>

\* epsilon_closure_set is called on the set the earlier call returned
CloseAgain ==
    /\ pc = "done"
    /\ first_closure = <<>>
    /\ first_closure' = <<closure>>
    /\ closure' = closure
    /\ stack' \in Perms(closure)
    /\ pc' = "while"
    /\ UNCHANGED <<nfa, dfa, arg_states, arg_symbol, closure_of, pushes, iterations,
                   detVars, first_dfa, acceptVars, ptaVars>>

SetNext == MoveNfa \/ SetClosureStep \/ SetClosureReturn \/ CloseAgain

SpecSetLevel == SetInit /\ [][SetNext]_vars

-----------------------------------------------------------------------------
(* NondeterministicFiniteAutomaton::accepts step by step (automata.rs:181-196) *)

\* accepts reads the transition map, the start state and the accept states
AcceptNFAs == NFAs(States, {Symbols}, SUBSET States)

\* `input` holds the symbols read so far from input.chars()
NfaAcceptsInit ==
    /\ nfa \in AcceptNFAs
    /\ input = <<>>
    /\ pos = 0
    /\ current_states = epsilon_closure(nfa, nfa.start_state)
    /\ current_state = Null
    /\ result = Null
    /\ pc = "for"
    /\ dfa = Null
    /\ DetIdle
    /\ ClosureIdle
    /\ SetIdle
    /\ PtaIdle

\* one iteration of `for symbol in input.chars()`
NfaSymbol ==
    /\ pc = "for"
    /\ pos < MaxLen
    /\ \E symbol \in Symbols :
         /\ input' = Append(input, symbol)
         /\ current_states' = next_states_of(nfa, current_states, symbol)
    /\ pos' = pos + 1
    /\ UNCHANGED <<setVars, ptaVars, nfa, pc, dfa, current_state, result, detVars, first_dfa, closureVars>>

\* mutant of NfaReturn: `all` in place of `any`
NfaReturnAll ==
    /\ pc = "for"
    /\ result' = \A s \in current_states : is_accepting(nfa, s)
    /\ pc' = "done"
    /\ UNCHANGED <<setVars, ptaVars, nfa, dfa, input, pos, current_states, current_state,
                   detVars, first_dfa, closureVars>>

\* the input is exhausted: `current_states.into_iter().any(|s| self.is_accepting(&s))`
NfaReturn ==
    /\ pc = "for"
    /\ result' = \E s \in current_states : is_accepting(nfa, s)
    /\ pc' = "done"
    /\ UNCHANGED <<setVars, ptaVars, nfa, dfa, input, pos, current_states, current_state, detVars,
                   first_dfa, closureVars>>

NfaAcceptsNext == NfaSymbol \/ NfaReturn

SpecNfaAccepts == NfaAcceptsInit /\ [][NfaAcceptsNext]_vars

-----------------------------------------------------------------------------
(* DeterministicFiniteAutomaton::accepts step by step (automata.rs:96-108) *)

\* a character that is in no alphabet
Chars == Symbols \cup {"c"}

\* DeterministicFiniteAutomaton::new (automata.rs:80-94) on the states of the
\* DFA of main.rs:6-19, with at most MaxEdges transitions
DFAs ==
    {[states |-> SmallStates, alphabet |-> Symbols, transition_function |-> t,
      start_state |-> s, accept_states |-> ac] :
        t \in UNION {[K -> SmallStates] :
                        K \in {Range(f) : f \in UNION {[1..k -> SmallStates \X Symbols] :
                                                          k \in 0..MaxEdges}}},
        s \in SmallStates, ac \in SUBSET SmallStates}

DfaAcceptsInit ==
    /\ dfa \in DFAs
    /\ input \in Strings(Chars, MaxLen)
    /\ pos = 0
    /\ current_state = dfa.start_state
    /\ current_states = Null
    /\ result = Null
    /\ pc = "for"
    /\ nfa = Null
    /\ DetIdle
    /\ ClosureIdle
    /\ SetIdle
    /\ PtaIdle

\* mutant of DfaSymbol: an undefined move skips the symbol instead of
\* returning false
DfaSymbolSkipsUndefined ==
    /\ pc = "for"
    /\ pos < Len(input)
    /\ current_state' =
          IF has_transition(dfa, current_state, input[pos + 1])
          THEN transition_dfa(dfa, current_state, input[pos + 1])
          ELSE current_state
    /\ pos' = pos + 1
    /\ UNCHANGED <<pc, result>>
    /\ UNCHANGED <<setVars, ptaVars, nfa, dfa, input, current_states, detVars, first_dfa, closureVars>>

\* one iteration of `for symbol in input.chars()`: advance on a defined move,
\* `return false` on an undefined one
DfaSymbol ==
    /\ pc = "for"
    /\ pos < Len(input)
    /\ IF has_transition(dfa, current_state, input[pos + 1])
       THEN /\ current_state' = transition_dfa(dfa, current_state, input[pos + 1])
            /\ pos' = pos + 1
            /\ UNCHANGED <<pc, result>>
       ELSE /\ result' = FALSE
            /\ pc' = "done"
            /\ UNCHANGED <<current_state, pos>>
    /\ UNCHANGED <<setVars, ptaVars, nfa, dfa, input, current_states, detVars, first_dfa, closureVars>>

\* the input is exhausted: `self.is_accepting(&current_state)`
DfaReturn ==
    /\ pc = "for"
    /\ pos = Len(input)
    /\ result' = dfa_is_accepting(dfa, current_state)
    /\ pc' = "done"
    /\ UNCHANGED <<setVars, ptaVars, nfa, dfa, input, pos, current_states, current_state, detVars,
                   first_dfa, closureVars>>

DfaAcceptsNext == DfaSymbol \/ DfaReturn

SpecDfaAccepts == DfaAcceptsInit /\ [][DfaAcceptsNext]_vars

-----------------------------------------------------------------------------
(* build_pta step by step (passive.rs:10-62) *)

\* the values of s.positive: sets of strings; s.negative is never read
Samples ==
    {S \in SUBSET Strings(Symbols, MaxWordLen) : Cardinality(S) <= MaxWords}

\* Step 1 (passive.rs:12-21): the literal "q0" is the string format!("q{}", 0)
PtaInit ==
    /\ positive \in Samples
    /\ words_left = positive
    /\ word = <<>>
    /\ next_state_index = 1
    /\ pta = [states |-> {format(0)}, alphabet |-> {}, transition_function |-> <<>>,
              start_state |-> format(0), accept_states |-> {}]
    /\ pc = "words"
    /\ nfa = Null
    /\ dfa = Null
    /\ DetIdle
    /\ ClosureIdle
    /\ AcceptIdle
    /\ SetIdle

\* mutant of PtaWord: the walk goes on from the node the last word ended in
PtaWordStaysPut ==
    /\ pc = "words"
    /\ \E w \in words_left :
         /\ word' = w
         /\ words_left' = words_left \ {w}
    /\ current_state' = IF current_state = Null THEN pta.start_state ELSE current_state
    /\ pc' = "chars"
    /\ UNCHANGED <<nfa, dfa, positive, next_state_index, pta, input, pos,
                   current_states, result, detVars, first_dfa, closureVars, setVars>>

\* `for word in s.positive` takes the next word, in the iteration order of the
\* HashSet, and starts at the start state (passive.rs:24-25)
PtaWord ==
    /\ pc = "words"
    /\ \E w \in words_left :
         /\ word' = w
         /\ words_left' = words_left \ {w}
    /\ current_state' = pta.start_state
    /\ pc' = "chars"
    /\ UNCHANGED <<nfa, dfa, positive, next_state_index, pta, input, pos,
                   current_states, result, detVars, first_dfa, closureVars, setVars>>

\* mutant of PtaSymbol: a new state is made for every character, whether or
\* not the transition exists
PtaSymbolAlwaysNew ==
    /\ pc = "chars"
    /\ word # <<>>
    /\ LET symbol == Head(word)
           key == <<current_state, symbol>>
           next_state == format(next_state_index)
       IN /\ next_state_index' = next_state_index + 1
          /\ pta' = [pta EXCEPT
                       !.alphabet = @ \cup {symbol},
                       !.states = @ \cup {next_state},
                       !.transition_function =
                           [x \in DOMAIN @ \cup {key} |->
                               IF x = key THEN next_state ELSE @[x]]]
          /\ current_state' = next_state
    /\ word' = Tail(word)
    /\ UNCHANGED <<nfa, pc, dfa, positive, words_left, input, pos, current_states,
                   result, detVars, first_dfa, closureVars, setVars>>

\* one iteration of `for symbol in word.chars()` (passive.rs:28-48): follow the
\* transition if there is one, else make the state q<next_state_index> and
\* the transition into it
PtaSymbol ==
    /\ pc = "chars"
    /\ word # <<>>
    /\ LET symbol == Head(word)
           key == <<current_state, symbol>>
           next_state == format(next_state_index)
       IN IF key \in DOMAIN pta.transition_function
          THEN /\ current_state' = pta.transition_function[key]
               /\ pta' = [pta EXCEPT !.alphabet = @ \cup {symbol}]
               /\ UNCHANGED next_state_index
          ELSE /\ next_state_index' = next_state_index + 1
               /\ pta' = [pta EXCEPT
                            !.alphabet = @ \cup {symbol},
                            !.states = @ \cup {next_state},
                            !.transition_function =
                                [x \in DOMAIN @ \cup {key} |->
                                    IF x = key THEN next_state ELSE @[x]]]
               /\ current_state' = next_state
    /\ word' = Tail(word)
    /\ UNCHANGED <<nfa, pc, dfa, positive, words_left, input, pos, current_states,
                   result, detVars, first_dfa, closureVars, setVars>>

\* the word is exhausted: `accept_states.insert(current_state)` (passive.rs:51)
PtaWordEnd ==
    /\ pc = "chars"
    /\ word = <<>>
    /\ pta' = [pta EXCEPT !.accept_states = @ \cup {current_state}]
    /\ pc' = "words"
    /\ UNCHANGED <<nfa, dfa, positive, words_left, word, next_state_index, acceptVars,
                   detVars, first_dfa, closureVars, setVars>>

\* Step 3 (passive.rs:55-61): the DFA is returned
PtaReturn ==
    /\ pc = "words"
    /\ words_left = {}
    /\ dfa' = pta
    /\ pc' = "done"
    /\ UNCHANGED <<nfa, ptaVars, acceptVars, detVars, first_dfa, closureVars, setVars>>

PtaNext == PtaWord \/ PtaSymbol \/ PtaWordEnd \/ PtaReturn

SpecPta == PtaInit /\ [][PtaNext]_vars

-----------------------------------------------------------------------------
(* Reference notions the claims are stated with *)

\* the targets of the transitions of n from q under label l
Delta(n, q, l) ==
    UNION {n.transition_function[k] :
              k \in {x \in DOMAIN n.transition_function : x = <<q, l>>}}

\* the states reachable from the states of S by zero or more epsilon
\* transitions, as a least fixed point
RECURSIVE EpsReach(_, _)
EpsReach(n, S) ==
    LET T == S \cup UNION {Delta(n, q, None) : q \in S}
    IN IF T = S THEN S ELSE EpsReach(n, T)

\* the states reachable from the start state along a path whose labels, with
\* the epsilon moves removed, spell the first i symbols of w
RECURSIVE Spelled(_, _, _)
Spelled(n, w, i) ==
    IF i = 0 THEN EpsReach(n, {n.start_state})
    ELSE EpsReach(n, UNION {Delta(n, q, w[i]) : q \in Spelled(n, w, i - 1)})

\* the runs of DFA d on the whole of w: one state per position, each move defined
Runs(d, w) ==
    {r \in [1..Len(w) + 1 -> d.states] :
        /\ r[1] = d.start_state
        /\ \A i \in 1..Len(w) :
              /\ <<r[i], w[i]>> \in DOMAIN d.transition_function
              /\ r[i + 1] = d.transition_function[<<r[i], w[i]>>]}

\* determinize has returned a DFA
Returned == pc = "done"

\* determinize has panicked
Panicked == pc = "panic"

\* the states of DFA d reachable from the states of S along its transitions
RECURSIVE DfaReach(_, _)
DfaReach(d, S) ==
    LET T == S \cup {d.transition_function[k] :
                        k \in {x \in DOMAIN d.transition_function : x[1] \in S}}
    IN IF T = S THEN S ELSE DfaReach(d, T)

\* h is an isomorphism from DFA d1 onto DFA d2
IsIsomorphism(h, d1, d2) ==
    /\ \A x, y \in d1.states : h[x] = h[y] => x = y
    /\ {h[x] : x \in d1.states} = d2.states
    /\ h[d1.start_state] = d2.start_state
    /\ {h[x] : x \in d1.accept_states} = d2.accept_states
    /\ {<<h[k[1]], k[2], h[d1.transition_function[k]]>> :
            k \in DOMAIN d1.transition_function}
         = {<<k[1], k[2], d2.transition_function[k]>> :
                k \in DOMAIN d2.transition_function}

Isomorphic(d1, d2) ==
    /\ Cardinality(d1.states) = Cardinality(d2.states)
    /\ \E h \in [d1.states -> d2.states] : IsIsomorphism(h, d1, d2)

\* the prefixes of the strings of a set, the empty prefix included
Prefixes(S) == {<<>>} \cup UNION {{SubSeq(w, 1, k) : k \in 0..Len(w)} : w \in S}

-----------------------------------------------------------------------------
(* The claims *)

\* C1: whenever determinize returns a DFA for an NFA, the DFA and the NFA
\* accept the same strings over the NFA's alphabet (up to MaxLen symbols, the
\* empty string included).
C1_LanguageEquivalence ==
    Returned =>
        \A w \in Strings(nfa.alphabet, MaxLen) :
            dfa_accepts(dfa, w) = nfa_accepts(nfa, w)

\* C2: the visited set never holds two entries with the same members, and the
\* DFA returned has exactly one state per distinct subset visited.
C2_OneEntryPerSubset ==
    /\ \A x, y \in visited : MetaEq(x, y) => x = y
    /\ Returned => Cardinality(dfa.states) = Cardinality({Range(m) : m \in visited})

\* C3: every subset of NFA states is dequeued and processed at most once, and
\* never more than 2^|N.states| meta-states are discovered.
C3_EachSubsetProcessedOnce ==
    /\ \A i, j \in DOMAIN processed :
          MetaEq(processed[i], processed[j]) => i = j
    /\ Cardinality(visited) <= 2 ^ Cardinality(nfa.states)

\* C4: NondeterministicFiniteAutomaton::accepts(w) returns true iff an accept
\* state is reachable from the start state along a path that spells w with
\* epsilon moves allowed before, between and after the symbols; for the empty
\* string, iff the epsilon closure of the start state meets the accept states.
C4_NfaAcceptsSpelledPaths ==
    pc = "done" =>
        /\ result = (Spelled(nfa, input, Len(input)) \cap nfa.accept_states # {})
        /\ result = nfa_accepts(nfa, input)
        /\ input = <<>> =>
              result = (EpsReach(nfa, {nfa.start_state}) \cap nfa.accept_states # {})

\* C4 witness: a one-symbol string is accepted although no transition on that
\* symbol leads into an accept state: an epsilon move after the symbol is used.
C4_Witness ==
    /\ pc = "done"
    /\ result = TRUE
    /\ Len(input) = 1
    /\ \A q \in States : Delta(nfa, q, input[1]) \cap nfa.accept_states = {}

C6_ClosureIsEpsilonReachability ==
    /\ closure_of \in closure
    /\ pc = "done" =>
        /\ closure = EpsReach(nfa, {closure_of})
        /\ closure = epsilon_closure(nfa, closure_of)

\* C6 witness: a closure of three states has been returned, its last member
\* reached through a chain of two epsilon moves.
C6_Witness ==
    /\ pc = "done"
    /\ Cardinality(closure) = 3
    /\ Cardinality(Delta(nfa, closure_of, None)) = 1

\* C7: epsilon_closure terminates, also on cyclic epsilon transitions and
\* self-loops: every state is pushed at most once and the while loop runs at
\* most |states| iterations.
C7_ClosureTerminates ==
    /\ <>(pc = "done")
    /\ [](\A q \in States : pushes[q] <= 1)
    /\ [](iterations <= Cardinality(nfa.states))

\* C7 witness: epsilon_closure has returned on an NFA whose epsilon transitions
\* form a cycle through the argument.
C7_Witness ==
    /\ pc = "done"
    /\ \E q \in States \ {closure_of} :
          /\ q \in Delta(nfa, closure_of, None)
          /\ closure_of \in Delta(nfa, q, None)
    /\ iterations = 2

\* C8: every state of the DFA returned by determinize is reachable from the
\* DFA's start state along the DFA's transitions.
C8_AllDfaStatesReachable ==
    Returned => dfa.states \subseteq DfaReach(dfa, {dfa.start_state})

\* C9: two calls of determinize on the same NFA return isomorphic DFAs.
C9_RunsIsomorphic ==
    (Returned /\ first_dfa # <<>>) => Isomorphic(first_dfa[1], dfa)

\* C10: for an NFA with an empty alphabet, and for an NFA whose start state
\* has no outgoing transition of any kind, determinize returns a DFA with
\* exactly one state, its start state, and no transition; that state is
\* accepting iff the epsilon closure of the NFA's start state meets the NFA's
\* accept states.
C10_SingleStateDfa ==
    ((Returned \/ Panicked)
        /\ (nfa.alphabet = {}
              \/ \A l \in Labels : Delta(nfa, nfa.start_state, l) = {}))
    => /\ Returned
       /\ dfa.states = {dfa.start_state}
       /\ DOMAIN dfa.transition_function = {}
       /\ (dfa.start_state \in dfa.accept_states)
             = (EpsReach(nfa, {nfa.start_state}) \cap nfa.accept_states # {})

\* C10 witness: determinize has returned for an NFA with an empty alphabet
\* whose start closure has two states, only the second of them accepting.
C10_Witness ==
    /\ Returned
    /\ nfa.alphabet = {}
    /\ EpsReach(nfa, {nfa.start_state}) = {"q0", "q1"}
    /\ nfa.accept_states = {"q1"}

\* C11: closing an epsilon-closed set changes nothing: when epsilon_closure_set
\* is called on the set an earlier epsilon_closure_set or move_nfa returned, it
\* returns that set again; and for every state s, the union of
\* epsilon_closure(q) over the q of epsilon_closure(s) is epsilon_closure(s).
C11_ClosureIdempotent ==
    pc = "done" =>
        /\ first_closure # <<>> => closure = first_closure[1]
        /\ epsilon_closure_set(nfa, closure) = closure
        /\ \A s \in States :
              UNION {epsilon_closure(nfa, q) : q \in epsilon_closure(nfa, s)}
                  = epsilon_closure(nfa, s)

\* C11 witness: the closure of a single state, grown to three states along a
\* chain of two epsilon moves, has been closed a second time.
C11_Witness ==
    /\ pc = "done"
    /\ first_closure # <<>>
    /\ arg_symbol = Null
    /\ Cardinality(arg_states) = 1
    /\ Cardinality(first_closure[1]) = 3
    /\ \A q \in States : Cardinality(Delta(nfa, q, None)) <= 1

\* C12: the DFA build_pta returns accepts a string iff it is one of the
\* positive sample strings, in whatever order the strings were processed;
\* strings with a character that occurs in no sample are rejected.
C12_PtaAcceptsExactlyPositive ==
    pc = "done" =>
        \A w \in Strings(Chars, MaxWordLen + 1) : dfa_accepts(dfa, w) = (w \in positive)

\* C12 witness: build_pta has returned for three positive strings, one of
\* them a proper prefix of another, and the empty string is not among them.
C12_Witness ==
    /\ pc = "done"
    /\ Cardinality(positive) = 3
    /\ <<>> \notin positive
    /\ \E u, v \in positive :
          /\ Len(u) < Len(v)
          /\ SubSeq(v, 1, Len(u)) = u

\* C17: between two words and on return, the automaton of build_pta is a tree
\* rooted at the start state q0 over the strings processed so far: every
\* prefix of them leads from q0 to a state, distinct prefixes to distinct
\* states, and there is no other state; the state names are unique (one per
\* value of the counter); q0 has no incoming transition and every other state
\* exactly one; the alphabet is the set of characters of those strings; the
\* accept states are the states those strings lead to.  On return the strings
\* processed are all the positive strings.
C17_PtaIsPrefixTree ==
    pc \in {"words", "done"} =>
        LET done == IF pc = "done" THEN positive ELSE positive \ words_left
            node(p) == dfa_run(pta, p, 1, pta.start_state)
        IN /\ \A p \in Prefixes(done) : ~node(p).returned_early
           /\ pta.states = {node(p).state : p \in Prefixes(done)}
           /\ \A p1, p2 \in Prefixes(done) : node(p1).state = node(p2).state => p1 = p2
           /\ Cardinality(pta.states) = next_state_index
           /\ pta.start_state = format(0)
           /\ \A q \in pta.states :
                 Cardinality({k \in DOMAIN pta.transition_function :
                                 pta.transition_function[k] = q})
                     = IF q = pta.start_state THEN 0 ELSE 1
           /\ \A k \in DOMAIN pta.transition_function : k[1] \in pta.states
           /\ pta.alphabet = UNION {Range(w) : w \in done}
           /\ pta.accept_states = {node(w).state : w \in done}
           /\ pc = "done" => dfa = pta

\* C17 witness: build_pta has returned a tree with a branching node: two
\* positive strings of two characters share their first character only, and
\* a third string is that shared prefix.
C17_Witness ==
    /\ pc = "done"
    /\ Cardinality(dfa.states) = 4
    /\ Cardinality(dfa.accept_states) = 3
    /\ \E u, v \in positive :
          /\ u # v /\ Len(u) = 2 /\ Len(v) = 2 /\ u[1] = v[1]
          /\ <<u[1]>> \in positive

\* C13: the DFA determinize returns is well formed: every visited meta-state
\* has a name of its own, so the DFA has as many states as meta-states were
\* visited; the start state is a state and is the name of the start
\* meta-state; the accept states are states; source and target of every
\* transition are states and its symbol is in the alphabet; the alphabet is
\* the alphabet of the NFA.
C13_DfaWellFormed ==
    Returned =>
        /\ Cardinality(dfa.states) = Cardinality(visited)
        /\ \A x, y \in DOMAIN state_map : state_map[x] = state_map[y] => x = y
        /\ dfa.start_state \in dfa.states
        /\ \E m \in DOMAIN state_map :
              MetaEq(m, start_state) /\ state_map[m] = dfa.start_state
        /\ dfa.accept_states \subseteq dfa.states
        /\ \A k \in DOMAIN dfa.transition_function :
              /\ k[1] \in dfa.states
              /\ dfa.transition_function[k] \in dfa.states
              /\ k[2] \in dfa.alphabet
        /\ dfa.alphabet = nfa.alphabet

\* C14: in the DFA determinize returns, the state of a processed meta-state M
\* has a transition on a symbol s of the alphabet iff the epsilon closure of
\* the s-successors of the members of M is not empty, and the target is then a
\* state standing for exactly that set; no DFA state stands for the empty set,
\* and a symbol no NFA transition uses labels no DFA transition.
C14_TransitionIffMoveNonEmpty ==
    Returned =>
        /\ \A m \in DOMAIN state_map : Range(m) # {}
        /\ \A m \in DOMAIN state_map : \A s \in nfa.alphabet :
              LET next == EpsReach(nfa, UNION {Delta(nfa, q, s) : q \in Range(m)})
                  key == <<state_map[m], s>>
              IN /\ (key \in DOMAIN dfa.transition_function) = (next # {})
                 /\ key \in DOMAIN dfa.transition_function =>
                       \E t \in DOMAIN state_map :
                          /\ state_map[t] = dfa.transition_function[key]
                          /\ Range(t) = next
        /\ \A s \in nfa.alphabet :
              (\A q \in nfa.states : Delta(nfa, q, s) = {}) =>
                  \A k \in DOMAIN dfa.transition_function : k[2] # s

\* C15: a state of the DFA determinize returns is an accept state iff the
\* meta-state it stands for contains at least one accept state of the NFA; so
\* for every visited meta-state, the start meta-state included.
C15_AcceptIffMetaStateAccepts ==
    Returned =>
        /\ \A m \in DOMAIN state_map :
              (state_map[m] \in dfa.accept_states)
                  = (Range(m) \cap nfa.accept_states # {})
        /\ (dfa.start_state \in dfa.accept_states)
              = (Range(start_state) \cap nfa.accept_states # {})

\* C16: in NondeterministicFiniteAutomaton::accepts an empty active set stays
\* empty under every later symbol, and accepts then returns false; a (state,
\* symbol-or-epsilon) pair that is no key of the transition map contributes
\* the empty set, and accepts only ever reads on or returns.
C16_EmptyActiveSetAbsorbing ==
    /\ [][(pc = "for" /\ current_states = {}) => current_states' = {}]_vars
    /\ []((pc = "done" /\ current_states = {}) => result = FALSE)
    /\ [](\A q \in States : \A l \in Labels :
            <<q, l>> \notin DOMAIN nfa.transition_function =>
                transition_nfa(nfa, q, l) = {})
    /\ [](pc \in {"for", "done"})

\* C16 witness: accepts has returned false on three symbols; the active set
\* was empty after the first symbol although the NFA has a transition on the
\* second symbol.
C16_Witness ==
    /\ pc = "done"
    /\ result = FALSE
    /\ Len(input) = 3
    /\ current_states = {}
    /\ next_states_of(nfa, epsilon_closure(nfa, nfa.start_state), input[1]) = {}
    /\ \E q \in States : Delta(nfa, q, input[2]) # {}

\* C18: the set-level primitives of determinize agree with the per-state
\* primitives of accepts: move_nfa(M, s) returns the union of epsilon_closure(r)
\* over the s-successors r of the members of M, which is the active set
\* accepts moves to from M; epsilon_closure_set({q}) returns epsilon_closure(q);
\* so the start meta-state is the initial active set of accepts.
C18_SetLevelAgreesWithPerState ==
    /\ (pc = "done" /\ first_closure = <<>>) =>
          /\ arg_symbol # Null =>
                /\ closure = UNION {epsilon_closure(nfa, r) :
                                       r \in UNION {transition_nfa(nfa, q, arg_symbol) :
                                                       q \in arg_states}}
                /\ closure = next_states_of(nfa, arg_states, arg_symbol)
                /\ closure = move_nfa(nfa, arg_states, arg_symbol)
          /\ arg_symbol = Null =>
                /\ closure = epsilon_closure_set(nfa, arg_states)
                /\ \A q \in States : arg_states = {q} => closure = epsilon_closure(nfa, q)
    /\ epsilon_closure_set(nfa, {nfa.start_state}) = epsilon_closure(nfa, nfa.start_state)

\* C18 witness: move_nfa has returned, for a set of two states, a set that
\* holds a state no transition on the symbol leads to: it was reached by an
\* epsilon move after the symbol.
C18_Witness ==
    /\ pc = "done"
    /\ first_closure = <<>>
    /\ arg_symbol # Null
    /\ Cardinality(arg_states) = 2
    /\ \E r \in closure : \A q \in States : r \notin Delta(nfa, q, arg_symbol)

=============================================================================
